---- MODULE Spec2Model ----
(***************************************************************************)
(* A model of the phone detector: the Messages sender (macos_messenger.py), *)
(* the capture-and-classify loop (iphone_detector.py) and the configuration *)
(* form (config_gui.py), the three of them meeting in config.json.          *)
(*                                                                          *)
(* Time is the reading of time.time() in whole seconds.  Confidences are    *)
(* hundredths (0.6 is 60).  A Python dict is a function whose DOMAIN is its  *)
(* set of keys; None is the string "None".                                  *)
(***************************************************************************)
EXTENDS Integers, Sequences, FiniteSets, TLC

VARIABLES
    now,          \* the clock: what time.time() returns
    messenger,    \* a MacOSMessenger object used on its own
    msg_call,     \* history: the call of a MacOSMessenger method made at this instant
    last_ok,      \* history: the last successful send_notification_with_cooldown
    fn_in,        \* the arguments of a function applied on its own
    fn_out,       \* its result
    config_file,  \* config.json
    det,          \* the detector processes (iphone_detector.py), by process
    frame_log,    \* history: the loop iteration a detector made at this instant
    gui,          \* the configuration form (config_gui.py)
    gui_call      \* history: the button of the form pressed at this instant

msgVars == <<messenger, msg_call, last_ok>>
detVars == <<config_file, det, frame_log>>
guiVars == <<gui, gui_call>>

(***************************************************************************)
(* Bounds of the model.                                                     *)
(***************************************************************************)
\* The clock is followed for MaxTime seconds after the program starts.
MaxTime == 120
\* The clock at the start: time.time() is far beyond any cooldown.
Epoch == 200
\* The seconds that pass between two clock readings of one loop iteration.
MaxLag == 1
\* The detector processes followed.
MaxDetectors == 2
\* The detections one detector process is followed for.
MaxDetections == 3
\* The rows the listbox of recipients is followed to.
MaxRows == 1

\* The steps the clock advances by between two operations.  The clock
\* readings inside one loop iteration (MaxLag) fall between the steps.
TickSteps == {15}

\* notification_cooldown values a config.json holds.
CooldownChoices == {0, 30, 90}

Recipients == {"+15551230001", "me@example.com"}
Services == {"iMessage", "SMS"}
Messages == {"alert"}

None == "None"

(***************************************************************************)
(* Python's completion of a call: a return with a value, or an exception.   *)
(* runs lists the osascript runs made on the way.                           *)
(***************************************************************************)
Return(v, runs) == [kind |-> "return", value |-> v, exc |-> None, runs |-> runs]
Raise(e, runs) == [kind |-> "raise", value |-> FALSE, exc |-> e, runs |-> runs]

\* subprocess.TimeoutExpired and the other exceptions are subclasses of
\* Exception.
IsInstance(exc, cls) ==
    \/ exc = cls
    \/ cls = "Exception" /\ exc \in {"TimeoutExpired", "Exception", "ValueError"}

\* try: body / except <handled>: return False
TryReturnFalse(body, handled) ==
    IF body.kind = "raise" /\ \E c \in handled : IsInstance(body.exc, c)
    THEN Return(FALSE, body.runs)
    ELSE body

\* What one osascript run can do: exit with code 0, exit with another code,
\* outlast the 30 s timeout, or fail otherwise (OSError, ...).
RunOutcomes == {"exit0", "nonzero", "TimeoutExpired", "Exception"}

\* What the world does to one send_message call: prep is the formatting and
\* escaping before the run (it raises for a recipient or message that is not
\* a str), primary and alt the two osascript runs.
SendOutcomes == [prep : {"ok", "raises"}, primary : RunOutcomes, alt : RunOutcomes]

\* One outcome for each path through send_message: the outcome of a step
\* that the path never takes is left at "exit0".
SendOutcomesRun == {o \in SendOutcomes :
                      /\ o.prep = "raises" => o.primary = "exit0"
                      /\ o.primary # "nonzero" => o.alt = "exit0"}

(***************************************************************************)
(* MacOSMessenger                                                           *)
(***************************************************************************)
\* MacOSMessenger.message_cooldown as __init__ sets it.
DefaultMessageCooldown == 60

MacOSMessenger_init == [last_message_time |-> 0,
                        message_cooldown |-> DefaultMessageCooldown]

_send_message_alternative(recipient, message, service, o) ==
    LET body == IF o.prep = "raises" THEN Raise("Exception", <<>>)
                ELSE CASE o.alt = "exit0" -> Return(TRUE, <<"alternative">>)
                       [] o.alt = "nonzero" -> Return(FALSE, <<"alternative">>)
                       [] OTHER -> Raise(o.alt, <<"alternative">>)
    IN  TryReturnFalse(body, {"Exception"})

\* A variant whose fallback is also taken when the primary run times out or
\* fails.
send_message_fallback_on_error(recipient, message, service, o) ==
    IF o.prep = "raises" THEN Return(FALSE, <<>>)
    ELSE IF o.primary = "exit0" THEN Return(TRUE, <<"primary">>)
    ELSE LET a == _send_message_alternative(recipient, message, service, o)
         IN  [a EXCEPT !.runs = <<"primary">> \o a.runs]

send_message(recipient, message, service, o) ==
    LET body ==
          IF o.prep = "raises" THEN Raise("Exception", <<>>)
          ELSE CASE o.primary = "exit0" -> Return(TRUE, <<"primary">>)
                 [] o.primary = "nonzero" ->
                      LET a == _send_message_alternative(recipient, message, service, o)
                      IN  [a EXCEPT !.runs = <<"primary">> \o a.runs]
                 [] OTHER -> Raise(o.primary, <<"primary">>)
    IN  TryReturnFalse(body, {"TimeoutExpired", "Exception"})

\* No send_message call was made.
NoSend == [kind |-> "none", value |-> FALSE, exc |-> None, runs |-> <<>>]

\* The cooldown test of send_notification_with_cooldown.
CooldownActive(m, current_time) ==
    current_time - m.last_message_time < m.message_cooldown

\* A variant that does not record the time of a successful send.
send_notification_with_cooldown_no_record(m, current_time, recipient, message, service, o) ==
    IF CooldownActive(m, current_time)
    THEN [ret |-> FALSE, m |-> m, sm |-> NoSend]
    ELSE LET r == send_message(recipient, message, service, o)
             success == IF r.kind = "return" THEN r.value ELSE FALSE
         IN  [ret |-> success, m |-> m, sm |-> r]

\* A variant with one cooldown per recipient and service.
send_notification_with_cooldown_per_recipient(m, current_time, recipient, message, service, o) ==
    IF /\ CooldownActive(m, current_time)
       /\ last_ok.recipient = recipient
       /\ last_ok.service = service
    THEN [ret |-> FALSE, m |-> m, sm |-> NoSend]
    ELSE LET r == send_message(recipient, message, service, o)
             success == IF r.kind = "return" THEN r.value ELSE FALSE
         IN  [ret |-> success,
              m |-> IF success THEN [m EXCEPT !.last_message_time = current_time] ELSE m,
              sm |-> r]

\* send_notification_with_cooldown on the messenger m, the clock reading
\* current_time: what it returns (ret), the messenger afterwards (m) and the
\* send_message call it made (sm, NoSend when it made none).
send_notification_with_cooldown(m, current_time, recipient, message, service, o) ==
    IF CooldownActive(m, current_time)
    THEN [ret |-> FALSE, m |-> m, sm |-> NoSend]
    ELSE LET r == send_message(recipient, message, service, o)
             success == IF r.kind = "return" THEN r.value ELSE FALSE
         IN  [ret |-> success,
              m |-> IF success THEN [m EXCEPT !.last_message_time = current_time] ELSE m,
              sm |-> r]

(***************************************************************************)
(* Python dicts and values                                                  *)
(***************************************************************************)
\* dict.get(key, default)
Get(d, key, default) == IF key \in DOMAIN d THEN d[key] ELSE default

\* The truth value of a recipient: None and "" are false.
Truthy(v) == v # None /\ v # ""

\* a or b
Or(a, b) == IF Truthy(a) THEN a ELSE b

\* "for key, value in default_config.items(): if key not in config:
\* config[key] = value"
MergeDefaults_overwrite(config, default_config) ==
    [k \in DOMAIN config \cup DOMAIN default_config |->
        IF k \in DOMAIN default_config THEN default_config[k] ELSE config[k]]

MergeDefaults(config, default_config) ==
    [k \in DOMAIN config \cup DOMAIN default_config |->
        IF k \in DOMAIN config THEN config[k] ELSE default_config[k]]

\* config.json: missing, unreadable as a JSON object ("invalid"), or a JSON
\* object (data).
FileMissing == [state |-> "missing", data |-> <<>>]
FileInvalid == [state |-> "invalid", data |-> <<>>]
\* config.json holding valid JSON that is not an object (a list, a number,
\* null): the merge loop raises TypeError, which load_config catches.
FileNonObject == [state |-> "nonobject", data |-> <<>>]
FileOf(data) == [state |-> "ok", data |-> data]

(***************************************************************************)
(* iPhoneDetector                                                           *)
(***************************************************************************)
DefaultArea == [enabled |-> FALSE, x |-> 0, y |-> 0, width |-> 640, height |-> 480]

\* default_config of iPhoneDetector.load_config.
DetectorDefaultConfig ==
    [camera_index |-> 0,
     detection_confidence |-> 50,
     notification_cooldown |-> 60,
     recipient_phone_number |-> "",
     recipient_email |-> "",
     message_service |-> "iMessage",
     detection_area |-> DefaultArea]

\* iPhoneDetector.load_config: the config it returns and config.json
\* afterwards (a missing file is created with the defaults).
load_config(file) ==
    CASE file.state = "missing" ->
           [config |-> DetectorDefaultConfig, file |-> FileOf(DetectorDefaultConfig)]
      [] file.state \in {"invalid", "nonobject"} ->
           [config |-> DetectorDefaultConfig, file |-> file]
      [] OTHER ->
           [config |-> MergeDefaults(file.data, DetectorDefaultConfig), file |-> file]

\* iPhoneDetector.notification_cooldown as __init__ sets it.
NotificationCooldown == 60

\* The detector object after __init__ on config.
iPhoneDetector_init(config) ==
    [config |-> config,
     detection_count |-> 0,
     last_notification_time |-> 0,
     notification_cooldown |-> NotificationCooldown,
     messenger |-> [MacOSMessenger_init EXCEPT
                      !.message_cooldown = Get(config, "notification_cooldown", 60)]]

\* The confidences the three heuristics report when they fire.
TemplateConfidence == 60
ColorConfidence == 50
ShapeConfidence == 40

ZeroBox == <<0, 0, 0, 0>>
Boxes == {<<100, 50, 60, 120>>, <<300, 200, 80, 160>>}

\* What a heuristic returns: (False, 0.0, (0, 0, 0, 0)) or (True, c, bbox).
Miss == [detected |-> FALSE, confidence |-> 0, bbox |-> ZeroBox]
Hit(c, b) == [detected |-> TRUE, confidence |-> c, bbox |-> b]

TemplateResults == {Miss} \cup {Hit(TemplateConfidence, b) : b \in Boxes}
ColorResults == {Miss} \cup {Hit(ColorConfidence, b) : b \in Boxes}
ShapeResults == {Miss} \cup {Hit(ShapeConfidence, b) : b \in Boxes}

\* What the three heuristics return on one frame.
HeuristicResults == [template : TemplateResults, color : ColorResults, shape : ShapeResults]

\* max(detections, key=lambda x: x[0]): the first of the greatest.
MaxByConfidence(detections) ==
    LET best == CHOOSE i \in DOMAIN detections :
                  /\ \A j \in DOMAIN detections :
                        detections[j].confidence <= detections[i].confidence
                  /\ \A j \in DOMAIN detections :
                        detections[j].confidence = detections[i].confidence => i <= j
    IN  detections[best]

\* min in place of max.
MinByConfidence(detections) ==
    LET least == CHOOSE i \in DOMAIN detections :
                   \A j \in DOMAIN detections :
                      detections[i].confidence <= detections[j].confidence
    IN  detections[least]

\* A variant that returns the detection with the lowest confidence.
detect_iphone_lowest(h, config) ==
    LET Above(r) == r.detected /\ r.confidence > config["detection_confidence"]
        detections == SelectSeq(<<h.template, h.color, h.shape>>, Above)
    IN  IF detections # <<>>
        THEN LET best == MinByConfidence(detections)
             IN  Hit(best.confidence, best.bbox)
        ELSE Miss

\* iPhoneDetector.detect_iphone on the heuristics' results h.
detect_iphone(h, config) ==
    LET Above(r) == r.detected /\ r.confidence > config["detection_confidence"]
        detections == SelectSeq(<<h.template, h.color, h.shape>>, Above)
    IN  IF detections # <<>>
        THEN LET best == MaxByConfidence(detections)
             IN  Hit(best.confidence, best.bbox)
        ELSE Miss

\* A variant that prefers the e-mail address.
send_notification_email_first(d, current_time, message, o) ==
    LET recipient == Or(Get(d.config, "recipient_email", None),
                        Get(d.config, "recipient_phone_number", None))
        service == Get(d.config, "message_service", "iMessage")
    IN  IF ~Truthy(recipient)
        THEN [ret |-> FALSE, m |-> d.messenger, called |-> FALSE,
              recipient |-> None, service |-> None, sm |-> NoSend]
        ELSE LET r == send_notification_with_cooldown(d.messenger, current_time,
                                                      recipient, message, service, o)
             IN  [ret |-> r.ret, m |-> r.m, called |-> TRUE,
                  recipient |-> recipient, service |-> service, sm |-> r.sm]

\* iPhoneDetector.send_notification of detector d, the messenger reading the
\* clock at current_time: what it returns (ret), the messenger afterwards (m),
\* whether the messenger was called and with which recipient and service,
\* and the send_message call made (sm).
send_notification(d, current_time, message, o) ==
    LET recipient == Or(Get(d.config, "recipient_phone_number", None),
                        Get(d.config, "recipient_email", None))
        service == Get(d.config, "message_service", "iMessage")
    IN  IF ~Truthy(recipient)
        THEN [ret |-> FALSE, m |-> d.messenger, called |-> FALSE,
              recipient |-> None, service |-> None, sm |-> NoSend]
        ELSE LET r == send_notification_with_cooldown(d.messenger, current_time,
                                                      recipient, message, service, o)
             IN  [ret |-> r.ret, m |-> r.m, called |-> TRUE,
                  recipient |-> recipient, service |-> service, sm |-> r.sm]

\* A variant of the test of the run loop that lets the boundary second through.
CooldownPassed_inclusive(d, current_time) ==
    current_time - d.last_notification_time >= d.notification_cooldown

\* "if current_time - self.last_notification_time > self.notification_cooldown"
CooldownPassed(d, current_time) ==
    current_time - d.last_notification_time > d.notification_cooldown

(***************************************************************************)
(* Strings of the form: a string is a sequence of characters; a run of      *)
(* letters or digits is written as one character.                           *)
(***************************************************************************)
\* " - ", the separator of a listbox row.
Sep == <<" ", "-", " ">>

StartsWith(s, prefix) ==
    /\ Len(s) >= Len(prefix)
    /\ SubSeq(s, 1, Len(prefix)) = prefix

\* s.split(sep, maxsplit)
RECURSIVE Split(_, _, _)
Split(s, sep, maxsplit) ==
    LET found == {i \in 1 .. Len(s) : StartsWith(SubSeq(s, i, Len(s)), sep)}
    IN  IF maxsplit = 0 \/ found = {}
        THEN <<s>>
        ELSE LET i == CHOOSE k \in found : \A j \in found : k <= j
             IN  <<SubSeq(s, 1, i - 1)>>
                   \o Split(SubSeq(s, i + Len(sep), Len(s)), sep, maxsplit - 1)

\* s.strip()
RECURSIVE Strip(_)
Strip(s) ==
    IF s = <<>> THEN s
    ELSE IF Head(s) = " " THEN Strip(Tail(s))
    ELSE IF s[Len(s)] = " " THEN Strip(SubSeq(s, 1, Len(s) - 1))
    ELSE s

\* The text of a StringVar: the digits of an integer, a number with a decimal
\* point, or something else.  str(n) gives the first two; int() reads the
\* first, float() the first two, and both raise ValueError on the rest.
IntText(n) == [kind |-> "int", val |-> n]
FloatText(n) == [kind |-> "float", val |-> n]
OtherText == [kind |-> "text", val |-> 0]

IntOf(t) == IF t.kind = "int" THEN Return(t.val, <<>>) ELSE Raise("ValueError", <<>>)
FloatOf(t) == IF t.kind \in {"int", "float"} THEN Return(t.val, <<>>)
              ELSE Raise("ValueError", <<>>)

(***************************************************************************)
(* ConfigGUI                                                                *)
(***************************************************************************)
\* default_config of ConfigGUI.load_config.
GuiDefaultConfig ==
    [camera_index |-> 0,
     detection_confidence |-> 50,
     notification_cooldown |-> 60,
     recipients |-> <<[name |-> <<"Mom">>, phone |-> <<>>,
                       message |-> <<"I'm on my phone while working!">>]>>,
     detection_area |-> DefaultArea]

\* ConfigGUI.load_config: the config and the dialog shown.
gui_load_config(file) ==
    CASE file.state = "missing" -> [config |-> GuiDefaultConfig, dialog |-> "none"]
      [] file.state \in {"invalid", "nonobject"} ->
           [config |-> GuiDefaultConfig, dialog |-> "error"]
      [] OTHER -> [config |-> MergeDefaults(file.data, GuiDefaultConfig),
                   dialog |-> "none"]

\* The listbox row of a recipient: "Name - Phone - Message".
DisplayText(recipient) ==
    recipient.name \o Sep \o recipient.phone \o Sep \o recipient.message

\* The recipients save_config reads back from the rows of the listbox.
RECURSIVE ParseRows(_)
ParseRows(rows) ==
    IF rows = <<>> THEN <<>>
    ELSE LET parts == Split(Head(rows), Sep, 2)
         IN  (IF Len(parts) = 3
              THEN <<[name |-> parts[1], phone |-> parts[2], message |-> parts[3]]>>
              ELSE <<>>) \o ParseRows(Tail(rows))

\* The form after __init__ on config.json: load_config, create_widgets and
\* load_current_config.
ConfigGUI_init(file) ==
    LET config == gui_load_config(file).config
    IN  [open |-> TRUE,
         config |-> config,
         camera_index_var |-> IntText(Get(config, "camera_index", 0)),
         confidence_var |-> FloatText(Get(config, "detection_confidence", 50)),
         cooldown_var |-> IntText(Get(config, "notification_cooldown", 60)),
         listbox |-> [i \in DOMAIN Get(config, "recipients", <<>>) |->
                        DisplayText(Get(config, "recipients", <<>>)[i])]]

\* What writing config.json can do: succeed, fail at open() and leave the file
\* as it was, or fail in json.dump after open() truncated the file.
WriteOutcomes == {"ok", "open_fails", "dump_fails"}

\* ConfigGUI.save_config on the form g: the form and the file afterwards, the
\* dialog shown, and whether the file was written.  self.config is updated
\* field by field until a conversion raises.
save_config(g, file, write) ==
    LET camera == IntOf(g.camera_index_var)
        confidence == FloatOf(g.confidence_var)
        cooldown == IntOf(g.cooldown_var)
        c1 == [g.config EXCEPT !.camera_index = camera.value]
        c2 == [c1 EXCEPT !.detection_confidence = confidence.value]
        c3 == [c2 EXCEPT !.notification_cooldown = cooldown.value]
        c4 == [c3 EXCEPT !.recipients = ParseRows(g.listbox)]
    IN  CASE camera.kind = "raise" ->
               [g |-> g, file |-> file, dialog |-> "error", wrote |-> FALSE]
          [] confidence.kind = "raise" ->
               [g |-> [g EXCEPT !.config = c1], file |-> file,
                dialog |-> "error", wrote |-> FALSE]
          [] cooldown.kind = "raise" ->
               [g |-> [g EXCEPT !.config = c2], file |-> file,
                dialog |-> "error", wrote |-> FALSE]
          [] write = "open_fails" ->
               [g |-> [g EXCEPT !.config = c4], file |-> file,
                dialog |-> "error", wrote |-> FALSE]
          [] write = "dump_fails" ->
               [g |-> [g EXCEPT !.config = c4], file |-> FileInvalid,
                dialog |-> "error", wrote |-> FALSE]
          [] OTHER ->
               [g |-> [g EXCEPT !.config = c4], file |-> FileOf(c4),
                dialog |-> "info", wrote |-> TRUE]

\* A variant of start_detector without the check of the recipients.
start_detector_unchecked(g, file, write, popen_ok) ==
    LET s == save_config(g, file, write)
    IN  [g |-> s.g, file |-> s.file, wrote |-> s.wrote, saved |-> TRUE,
         launched |-> popen_ok,
         dialogs |-> <<s.dialog, IF popen_ok THEN "info" ELSE "error">>]

\* ConfigGUI.start_detector: the form and the file afterwards, whether
\* save_config was called (saved), whether it wrote the file, whether
\* subprocess.Popen started a detector (launched), and the dialogs shown.
start_detector(g, file, write, popen_ok) ==
    IF Len(g.listbox) = 0
    THEN [g |-> g, file |-> file, wrote |-> FALSE, saved |-> FALSE,
          launched |-> FALSE, dialogs |-> <<"error">>]
    ELSE LET s == save_config(g, file, write)
         IN  [g |-> s.g, file |-> s.file, wrote |-> s.wrote, saved |-> TRUE,
              launched |-> popen_ok,
              dialogs |-> <<s.dialog, IF popen_ok THEN "info" ELSE "error">>]

\* ConfigGUI.add_recipient with the three entries holding name, phone and
\* message: the form afterwards and the dialog shown.
add_recipient(g, name, phone, message) ==
    LET n == Strip(name)
        ph == Strip(phone)
        msg == Strip(message)
    IN  IF n = <<>> \/ ph = <<>> \/ msg = <<>>
        THEN [g |-> g, dialog |-> "error"]
        ELSE [g |-> [g EXCEPT !.listbox = Append(@, n \o Sep \o ph \o Sep \o msg)],
              dialog |-> "none"]

\* ConfigGUI.remove_recipient with row i selected (0: no row selected).
remove_recipient(g, i) ==
    IF i = 0
    THEN [g |-> g, dialog |-> "warning"]
    ELSE [g |-> [g EXCEPT !.listbox = SubSeq(@, 1, i - 1) \o SubSeq(@, i + 1, Len(@))],
          dialog |-> "none"]

vars == <<now, messenger, msg_call, last_ok, fn_in, fn_out, config_file, det, frame_log,
         gui, gui_call>>

\* fn_in and fn_out hold <<>> or a single value.
fnVars == <<fn_in, fn_out>>
fnIdle == fn_in = <<>> /\ fn_out = <<>>


(***************************************************************************)
(* The processes and their steps                                            *)
(***************************************************************************)
Procs == 1 .. MaxDetectors

\* A detector process: where it is (pc: "unborn", "spawned" before
\* iPhoneDetector(), "running" in the loop of run(), "exited"), the fields of
\* its iPhoneDetector object, the cleanup() calls made, and, as history, the
\* messenger's clock reading of its last notification sent (-1: none yet).
DetectorProcess(pc, obj) ==
    [pc |-> pc,
     config |-> obj.config,
     detection_count |-> obj.detection_count,
     last_notification_time |-> obj.last_notification_time,
     notification_cooldown |-> obj.notification_cooldown,
     messenger |-> obj.messenger,
     cleanups |-> 0,
     sent_at |-> -1]

Unborn == DetectorProcess("unborn", iPhoneDetector_init(DetectorDefaultConfig))
Spawned == DetectorProcess("spawned", iPhoneDetector_init(DetectorDefaultConfig))

\* No loop iteration was made at this instant.
NoFrame == [proc |-> 0, kind |-> "none", detected |-> FALSE, attempted |-> FALSE,
            called |-> FALSE, recipient |-> None, sm |-> NoSend, ret |-> FALSE,
            lag |-> 0, lnt_before |-> 0, lmt_before |-> 0, count_before |-> 0,
            sent_before |-> -1, quit |-> FALSE]

\* No messenger call: the loop did not call send_notification.
NotAttempted(d) == [ret |-> FALSE, m |-> d.messenger, called |-> FALSE,
                    recipient |-> None, service |-> None, sm |-> NoSend]

\* The keys cv2.waitKey reads: none, 'q' (quit), 's' (save the frame).
Keys == {"none", "q", "s"}

\* The outcome given where no send_message call is made.
NoOutcome == [prep |-> "ok", primary |-> "exit0", alt |-> "exit0"]

\* main() of iphone_detector.py up to the loop of run(): iPhoneDetector()
\* loads config.json, run() opens the camera and returns when it cannot.
DetectorStart(p, camera_ok) ==
    LET l == load_config(config_file)
    IN  /\ det[p].pc = "spawned"
        /\ config_file' = l.file
        /\ det' = [det EXCEPT ![p] =
                     DetectorProcess(IF camera_ok THEN "running" ELSE "exited",
                                     iPhoneDetector_init(l.config))]
        /\ frame_log' = NoFrame
        /\ UNCHANGED now

\* One iteration of the loop of run() in process p: the frame is read (ret),
\* the heuristics return h, the messenger reads the clock lag seconds after
\* the loop did, the osascript runs end as o says, and waitKey reads key.
Frame(p, ret, h, lag, o, key) ==
    LET d == det[p]
        r == detect_iphone(h, d.config)
        current_time == now
        attempt == r.detected /\ CooldownPassed(d, current_time)
        n == IF attempt THEN send_notification(d, now + lag, "alert", o)
             ELSE NotAttempted(d)
        count == IF r.detected THEN d.detection_count + 1 ELSE d.detection_count
        quit == key = "q"
    IN  /\ d.pc = "running"
        /\ ret /\ r.detected => d.detection_count < MaxDetections
        \* inputs that are not read are not varied
        /\ ~ret => h = [template |-> Miss, color |-> Miss, shape |-> Miss] /\ key = "none"
        /\ ~(ret /\ n.called) => lag = 0
        /\ (~ret \/ n.sm = NoSend) => o = NoOutcome
        /\ IF ~ret
           THEN /\ det' = [det EXCEPT ![p].pc = "exited", ![p].cleanups = @ + 1]
                /\ frame_log' = [NoFrame EXCEPT !.proc = p, !.kind = "read_failed"]
           ELSE /\ det' = [det EXCEPT
                     ![p].detection_count = count,
                     ![p].last_notification_time = IF n.ret THEN current_time ELSE @,
                     ![p].messenger = n.m,
                     ![p].sent_at = IF n.ret THEN now + lag ELSE @,
                     ![p].pc = IF quit THEN "exited" ELSE @,
                     ![p].cleanups = IF quit THEN @ + 1 ELSE @]
                /\ frame_log' = [proc |-> p, kind |-> "frame", detected |-> r.detected,
                                 attempted |-> attempt, called |-> n.called,
                                 recipient |-> n.recipient, sm |-> n.sm, ret |-> n.ret,
                                 lag |-> lag,
                                 lnt_before |-> d.last_notification_time,
                                 lmt_before |-> d.messenger.last_message_time,
                                 count_before |-> d.detection_count,
                                 sent_before |-> d.sent_at, quit |-> quit]
        /\ now' = now + lag
        /\ UNCHANGED config_file

\* What the loop of run() catches: KeyboardInterrupt, and any Exception.
LoopExceptions == {"KeyboardInterrupt", "Exception"}

\* A variant of LoopRaises that leaves the loop without cleanup().
LoopRaises_no_cleanup(p, exc, counted) ==
    /\ det[p].pc = "running"
    /\ counted => det[p].detection_count < MaxDetections
    /\ det' = [det EXCEPT ![p].pc = "exited",
                          ![p].detection_count = IF counted THEN @ + 1 ELSE @]
    /\ frame_log' = [NoFrame EXCEPT !.proc = p, !.kind = exc]
    /\ UNCHANGED <<now, config_file>>

\* An iteration of the loop of run() in process p raises exc, before the
\* detection was counted or after: the except clause logs it, finally calls
\* cleanup(), and run() returns.
LoopRaises(p, exc, counted) ==
    /\ det[p].pc = "running"
    /\ counted => det[p].detection_count < MaxDetections
    /\ det' = [det EXCEPT ![p].pc = "exited",
                          ![p].cleanups = @ + 1,
                          ![p].detection_count = IF counted THEN @ + 1 ELSE @]
    /\ frame_log' = [NoFrame EXCEPT !.proc = p, !.kind = exc]
    /\ UNCHANGED <<now, config_file>>

(***************************************************************************)
(* The form's steps                                                         *)
(***************************************************************************)
\* The buttons pressed at this instant: none.
NoGuiCall == [op |-> "none", dialogs |-> <<>>, wrote |-> FALSE, saved |-> FALSE,
              launched |-> FALSE]

\* No form is open.
NoGui == [ConfigGUI_init(FileMissing) EXCEPT !.open = FALSE]

guiIdle == gui = NoGui /\ gui_call = NoGuiCall

\* The first detector process not yet started.
NextUnborn == CHOOSE p \in Procs :
                 /\ det[p].pc = "unborn"
                 /\ \A q \in Procs : det[q].pc = "unborn" => p <= q

\* The user presses "Save Configuration".
GuiSaveConfig(write) ==
    LET r == save_config(gui, config_file, write)
    IN  /\ gui.open
        /\ gui' = r.g
        /\ config_file' = r.file
        /\ gui_call' = [op |-> "save_config", dialogs |-> <<r.dialog>>,
                        wrote |-> r.wrote, saved |-> TRUE, launched |-> FALSE]
        /\ UNCHANGED det

\* The user presses "START DETECTOR": each detector launched is a new process.
GuiStartDetector(write, popen_ok) ==
    LET r == start_detector(gui, config_file, write, popen_ok)
    IN  /\ gui.open
        /\ r.launched => \E p \in Procs : det[p].pc = "unborn"
        /\ gui' = r.g
        /\ config_file' = r.file
        /\ det' = IF r.launched THEN [det EXCEPT ![NextUnborn] = Spawned] ELSE det
        /\ gui_call' = [op |-> "start_detector", dialogs |-> r.dialogs,
                        wrote |-> r.wrote, saved |-> r.saved, launched |-> r.launched]

\* The user fills the three entries and presses "Add Recipient".
GuiAddRecipient(name, phone, message) ==
    LET r == add_recipient(gui, name, phone, message)
    IN  /\ gui.open
        /\ Len(r.g.listbox) <= MaxRows
        /\ gui' = r.g
        /\ gui_call' = [NoGuiCall EXCEPT !.op = "add_recipient",
                          !.dialogs = IF r.dialog = "none" THEN <<>> ELSE <<r.dialog>>]
        /\ UNCHANGED <<config_file, det>>

\* The user presses "Remove Selected" with row i selected (0: none).
GuiRemoveRecipient(i) ==
    LET r == remove_recipient(gui, i)
    IN  /\ gui.open
        /\ i \in 0 .. Len(gui.listbox)
        /\ gui' = r.g
        /\ gui_call' = [NoGuiCall EXCEPT !.op = "remove_recipient",
                          !.dialogs = IF r.dialog = "none" THEN <<>> ELSE <<r.dialog>>]
        /\ UNCHANGED <<config_file, det>>

\* The user types text into the entry of a setting.
GuiEdit(field, text) ==
    /\ gui.open
    /\ gui[field] # text
    /\ gui' = [gui EXCEPT ![field] = text]
    /\ gui_call' = [NoGuiCall EXCEPT !.op = "edit"]
    /\ UNCHANGED <<config_file, det>>

\* No messenger call was made at this instant.
NoCall == [method |-> "none", recipient |-> None, service |-> None,
           ret |-> FALSE, sm |-> NoSend,
           prev |-> [time |-> -1, recipient |-> None, service |-> None]]

\* No send_notification_with_cooldown call has succeeded yet.
NeverSent == [time |-> -1, recipient |-> None, service |-> None]

msgIdle ==
    /\ messenger = MacOSMessenger_init
    /\ msg_call = NoCall
    /\ last_ok = NeverSent

detIdle ==
    /\ config_file = FileMissing
    /\ det = [p \in Procs |-> Unborn]
    /\ frame_log = NoFrame
    /\ guiIdle

(***************************************************************************)
(* A MacOSMessenger object driven by any caller.                            *)
(***************************************************************************)
\* The clock advances; the call made at the earlier instant is history.
Tick(d) ==
    /\ now + d <= Epoch + MaxTime
    /\ now' = now + d
    /\ msg_call' = NoCall
    /\ frame_log' = NoFrame
    /\ UNCHANGED <<messenger, last_ok>>

\* A caller invokes messenger.send_notification_with_cooldown.
CallSendNotificationWithCooldown(recipient, message, service, o) ==
    LET r == send_notification_with_cooldown(messenger, now, recipient, message, service, o)
    IN  /\ messenger' = r.m
        /\ msg_call' = [method |-> "send_notification_with_cooldown",
                        recipient |-> recipient, service |-> service,
                        ret |-> r.ret, sm |-> r.sm, prev |-> last_ok]
        /\ last_ok' = IF r.ret
                      THEN [time |-> now, recipient |-> recipient, service |-> service]
                      ELSE last_ok
        /\ UNCHANGED now

MessengerInit ==
    /\ now = Epoch
    /\ \E cd \in CooldownChoices \cup {DefaultMessageCooldown} :
          messenger = [MacOSMessenger_init EXCEPT !.message_cooldown = cd]
    /\ msg_call = NoCall
    /\ last_ok = NeverSent
    /\ fnIdle
    /\ detIdle

MessengerNext ==
    \/ \E d \in TickSteps : Tick(d) /\ UNCHANGED <<fnVars, config_file, det, guiVars>>
    \/ \E rc \in Recipients, sv \in Services, msg \in Messages, o \in SendOutcomesRun :
          CallSendNotificationWithCooldown(rc, msg, sv, o) /\ UNCHANGED <<fnVars, detVars, guiVars>>


MessengerSpec == MessengerInit /\ [][MessengerNext]_vars

\* The call made at this instant is a send_notification_with_cooldown call
\* that falls less than message_cooldown seconds after the last successful one.
WithinCooldownOfLastSend ==
    /\ msg_call.method = "send_notification_with_cooldown"
    /\ msg_call.prev.time >= 0
    /\ now - msg_call.prev.time < messenger.message_cooldown

C5_TrueWhenSentOrCooldown ==
    ( /\ msg_call.method = "send_notification_with_cooldown"
      /\ \/ msg_call.sm.kind = "return" /\ msg_call.sm.value = TRUE
         \/ WithinCooldownOfLastSend ) =>
        msg_call.ret = TRUE

\* C6: the cooldown is global: within message_cooldown seconds of a successful
\* send, a call for another recipient or another service is rejected without
\* a send_message call, like a call for the same recipient.
C6_CooldownIsGlobal ==
    ( /\ WithinCooldownOfLastSend
      /\ \/ msg_call.recipient # msg_call.prev.recipient
         \/ msg_call.service # msg_call.prev.service ) =>
        msg_call.ret = FALSE /\ msg_call.sm = NoSend

\* A call for another recipient over another service inside the cooldown.
C6_Witness ==
    /\ WithinCooldownOfLastSend
    /\ now > msg_call.prev.time
    /\ msg_call.recipient # msg_call.prev.recipient
    /\ msg_call.service # msg_call.prev.service
    /\ msg_call.ret = FALSE

(***************************************************************************)
(* send_message applied on its own to every recipient, service and outcome. *)
(***************************************************************************)
SendInit ==
    /\ now = Epoch
    /\ messenger = MacOSMessenger_init
    /\ msg_call = NoCall
    /\ last_ok = NeverSent
    /\ \E a \in [recipient : Recipients, message : Messages, service : Services,
                  o : SendOutcomes] : fn_in = <<a>>
    /\ fn_out = <<>>
    /\ detIdle

ApplySendMessage ==
    /\ fn_out = <<>>
    /\ fn_out' = <<send_message(fn_in[1].recipient, fn_in[1].message,
                                fn_in[1].service, fn_in[1].o)>>
    /\ UNCHANGED <<now, msgVars, detVars, guiVars, fn_in>>

SendNext == ApplySendMessage

SendSpec == SendInit /\ [][SendNext]_vars

\* The number of times the alternative method ran.
AlternativeRuns(r) == Cardinality({i \in DOMAIN r.runs : r.runs[i] = "alternative"})

\* C8: send_message never raises and returns a boolean; it returns True iff
\* the primary run exits with 0, or the primary run exits non-zero and the
\* alternative's run exits with 0; the alternative is tried at most once and
\* only after a non-zero exit of the primary run; a timeout or an exception of
\* the primary run gives False without the alternative.
C8_SendMessageResult ==
    fn_out # <<>> =>
      LET r == fn_out[1]
          o == fn_in[1].o
          ran == o.prep = "ok"
      IN  /\ r.kind = "return"
          /\ r.value \in BOOLEAN
          /\ r.value <=> ( /\ ran
                           /\ \/ o.primary = "exit0"
                              \/ o.primary = "nonzero" /\ o.alt = "exit0" )
          /\ AlternativeRuns(r) <= 1
          /\ AlternativeRuns(r) = 1 =>
                ran /\ o.primary = "nonzero" /\ r.runs = <<"primary", "alternative">>
          /\ (ran /\ o.primary \in {"TimeoutExpired", "Exception"}) =>
                r.value = FALSE /\ r.runs = <<"primary">>

\* The primary run exits non-zero and the alternative sends the message.
C8_Witness ==
    /\ fn_out # <<>>
    /\ fn_in[1].o.primary = "nonzero"
    /\ fn_in[1].o.alt = "exit0"
    /\ fn_out[1].value = TRUE
    /\ fn_out[1].runs = <<"primary", "alternative">>
\* The inputs of Frame that the iteration reads: the messenger's clock reading
\* when the messenger is called, the outcome of the osascript runs when
\* send_message is called.
FrameLags(p, ret, h) ==
    LET d == det[p]
        r == detect_iphone(h, d.config)
    IN  IF /\ ret /\ r.detected /\ CooldownPassed(d, now)
           /\ send_notification(d, now, "alert", NoOutcome).called
        THEN 0 .. MaxLag ELSE {0}

FrameOutcomes(p, ret, h, lag) ==
    LET d == det[p]
        r == detect_iphone(h, d.config)
    IN  IF /\ ret /\ r.detected /\ CooldownPassed(d, now)
           /\ send_notification(d, now + lag, "alert", NoOutcome).sm # NoSend
        THEN SendOutcomesRun ELSE {NoOutcome}

(***************************************************************************)
(* A detector started from the command line on a config.json written by     *)
(* hand or by setup.py.                                                     *)
(***************************************************************************)
\* A config.json as archive/setup.py writes it.
SetupFile(cd, phone, email, service) ==
    FileOf([camera_index |-> 0,
            detection_confidence |-> 50,
            notification_cooldown |-> cd,
            recipient_phone_number |-> phone,
            recipient_email |-> email,
            message_service |-> service,
            detection_area |-> DefaultArea])

\* The same edited by hand: the recipient alone.
RecipientOnlyFile(phone) == FileOf([recipient_phone_number |-> phone])

Phone == "+15551230001"
Email == "me@example.com"

DetectorFiles ==
    {FileMissing, FileInvalid}
    \cup {RecipientOnlyFile(Phone)}
    \cup {SetupFile(cd, Phone, "", "iMessage") : cd \in CooldownChoices}
    \cup {SetupFile(30, ph, em, "SMS") : ph \in {None, "", Phone}, em \in {None, Email}}

\* The heuristics' results the loop is followed on: nothing fires, the template
\* heuristic fires, the shape heuristic alone fires.
FrameChoices ==
    {[template |-> Miss, color |-> Miss, shape |-> Miss],
     [template |-> Hit(TemplateConfidence, <<100, 50, 60, 120>>), color |-> Miss, shape |-> Miss],
     [template |-> Miss, color |-> Miss, shape |-> Hit(ShapeConfidence, <<100, 50, 60, 120>>)]}

DetectorTickSteps == {60}

DetectorInit ==
    /\ now = Epoch
    /\ msgIdle
    /\ fnIdle
    /\ config_file \in DetectorFiles
    /\ det = [p \in Procs |-> IF p = 1 THEN Spawned ELSE Unborn]
    /\ frame_log = NoFrame
    /\ guiIdle

DetectorNext ==
    \/ \E d \in DetectorTickSteps : Tick(d) /\ UNCHANGED <<fnVars, config_file, det, guiVars>>
    \/ \E p \in Procs, camera_ok \in BOOLEAN :
          DetectorStart(p, camera_ok) /\ UNCHANGED <<msgVars, fnVars, guiVars>>
    \/ \E p \in Procs, ret \in BOOLEAN, h \in FrameChoices, key \in Keys :
          \E lag \in FrameLags(p, ret, h) : \E o \in FrameOutcomes(p, ret, h, lag) :
             Frame(p, ret, h, lag, o, key) /\ UNCHANGED <<msgVars, fnVars, guiVars>>
    \/ \E p \in Procs, exc \in LoopExceptions, counted \in BOOLEAN :
          LoopRaises(p, exc, counted) /\ UNCHANGED <<msgVars, fnVars, guiVars>>

DetectorSpec == DetectorInit /\ [][DetectorNext]_vars


\* The process of the loop iteration made at this instant, and the clock
\* reading of the iteration (current_time of run()).
FrameProc == det[frame_log.proc]
FrameTime == now - frame_log.lag

DetectedFrame == frame_log.kind = "frame" /\ frame_log.detected

\* C2: in run(), on a frame with a phone detected, send_notification is called
\* only if the current time minus last_notification_time is strictly greater
\* than notification_cooldown; on a detected frame inside the cooldown nothing
\* is sent and the detection is only counted.
C2_SendOnlyAfterCooldown ==
    DetectedFrame =>
      LET passed == FrameTime - frame_log.lnt_before > FrameProc.notification_cooldown
      IN  /\ frame_log.attempted => passed
          /\ ~passed =>
                /\ ~frame_log.attempted
                /\ ~frame_log.called
                /\ frame_log.sm = NoSend
                /\ FrameProc.detection_count = frame_log.count_before + 1
                /\ FrameProc.last_notification_time = frame_log.lnt_before
                /\ FrameProc.messenger.last_message_time = frame_log.lmt_before

\* A phone detected inside the cooldown of a notification sent earlier.
C2_Witness ==
    /\ DetectedFrame
    /\ frame_log.lnt_before > 0
    /\ FrameTime - frame_log.lnt_before <= FrameProc.notification_cooldown
    /\ ~frame_log.attempted
    /\ FrameProc.detection_count = frame_log.count_before + 1

\* The recipient send_notification finds in the config of the process.
ConfiguredPhone == Get(FrameProc.config, "recipient_phone_number", None)
ConfiguredEmail == Get(FrameProc.config, "recipient_email", None)

\* C3: the configured notification_cooldown is the cooldown the detector
\* applies: on a frame with a phone detected, a recipient configured and more
\* than notification_cooldown seconds passed since the last notification
\* sent, send_message is invoked.
C3_ConfiguredCooldownApplied ==
    ( /\ DetectedFrame
      /\ Truthy(ConfiguredPhone) \/ Truthy(ConfiguredEmail)
      /\ FrameProc.config["notification_cooldown"] >= 0
      /\ frame_log.sent_before >= 0
      /\ FrameTime - frame_log.sent_before > FrameProc.config["notification_cooldown"] ) =>
        frame_log.sm # NoSend

\* C9: send_notification uses recipient_phone_number when it is non-empty and
\* recipient_email otherwise; with both empty or absent it returns False
\* without calling the messenger: nothing is sent, no cooldown state changes.
C9_RecipientChoice ==
    (frame_log.kind = "frame" /\ frame_log.attempted) =>
      /\ Truthy(ConfiguredPhone) =>
            frame_log.called /\ frame_log.recipient = ConfiguredPhone
      /\ (~Truthy(ConfiguredPhone) /\ Truthy(ConfiguredEmail)) =>
            frame_log.called /\ frame_log.recipient = ConfiguredEmail
      /\ (~Truthy(ConfiguredPhone) /\ ~Truthy(ConfiguredEmail)) =>
            /\ ~frame_log.called
            /\ frame_log.ret = FALSE
            /\ frame_log.sm = NoSend
            /\ FrameProc.messenger.last_message_time = frame_log.lmt_before
            /\ FrameProc.last_notification_time = frame_log.lnt_before

\* send_notification is called with no recipient configured.
C9_Witness ==
    /\ frame_log.kind = "frame"
    /\ frame_log.attempted
    /\ ~Truthy(ConfiguredPhone)
    /\ ~Truthy(ConfiguredEmail)
    /\ ~frame_log.called

\* C15: once the camera is initialised, run() leaves its loop when 'q' is
\* read, when a frame read fails and when the loop raises KeyboardInterrupt or
\* an Exception; a process that leaves the loop has called cleanup() exactly
\* once; after run() returned nothing of the process changes (no frame is
\* processed, no second cleanup); and a process whose camera failed to
\* initialise returns having counted no detection and sent no notification.
C15_LoopExitAndCleanup ==
    [][\A p \in Procs :
          /\ (det[p].pc = "running" /\ frame_log'.proc = p
                /\ (frame_log'.quit \/ frame_log'.kind \in {"read_failed"} \cup LoopExceptions))
                => det'[p].pc = "exited"
          /\ (det[p].pc = "running" /\ det'[p].pc = "exited")
                => det[p].cleanups = 0 /\ det'[p].cleanups = 1
          /\ (det[p].pc = "running" /\ det'[p].pc = "running") => det'[p].cleanups = 0
          /\ det[p].pc = "exited" => det'[p] = det[p]
          /\ (det[p].pc = "spawned" /\ det'[p].pc = "exited")
                => /\ det'[p].detection_count = 0
                   /\ det'[p].sent_at = -1
                   /\ det'[p].messenger.last_message_time = 0]_vars

\* The loop raised after a notification was sent, and cleanup() ran once.
C15_Witness ==
    /\ frame_log.kind \in LoopExceptions
    /\ FrameProc.pc = "exited"
    /\ FrameProc.cleanups = 1
    /\ FrameProc.sent_at >= 0

(***************************************************************************)
(* detect_iphone applied on its own to the heuristics' results.             *)
(***************************************************************************)
\* detection_confidence values: below, at and above the heuristics' confidences.
Thresholds == {30, 40, 50, 60, 70}

DetectInit ==
    /\ now = Epoch
    /\ msgIdle
    /\ detIdle
    /\ \E h \in HeuristicResults, t \in Thresholds :
          fn_in = <<[h |-> h, config |-> [DetectorDefaultConfig EXCEPT
                                           !.detection_confidence = t]]>>
    /\ fn_out = <<>>

ApplyDetectIphone ==
    /\ fn_out = <<>>
    /\ fn_out' = <<detect_iphone(fn_in[1].h, fn_in[1].config)>>
    /\ UNCHANGED <<now, msgVars, detVars, guiVars, fn_in>>

DetectNext == ApplyDetectIphone

DetectSpec == DetectInit /\ [][DetectNext]_vars

\* The heuristics' results that fired above detection_confidence.
Fired(h, config) ==
    {x \in {h.template, h.color, h.shape} :
        x.detected /\ x.confidence > config["detection_confidence"]}

\* C7: detect_iphone returns (True, c, b), (c, b) the result of highest
\* confidence among the heuristics that fired with a confidence strictly above
\* detection_confidence, and (False, 0.0, (0, 0, 0, 0)) exactly when none did.
C7_BestDetection ==
    fn_out # <<>> =>
      LET r == fn_out[1]
          fired == Fired(fn_in[1].h, fn_in[1].config)
      IN  /\ r = Miss <=> fired = {}
          /\ fired # {} =>
                /\ r.detected = TRUE
                /\ \E x \in fired :
                      /\ r.confidence = x.confidence
                      /\ r.bbox = x.bbox
                      /\ \A y \in fired : y.confidence <= x.confidence

\* Two heuristics fired above the threshold and one below it.
C7_Witness ==
    /\ fn_out # <<>>
    /\ Cardinality(Fired(fn_in[1].h, fn_in[1].config)) = 2
    /\ fn_in[1].h.shape.detected
    /\ fn_in[1].h.shape \notin Fired(fn_in[1].h, fn_in[1].config)
    /\ fn_out[1].detected

(***************************************************************************)
(* The configuration form driven by a user; the detectors it launches are   *)
(* not followed further.                                                    *)
(***************************************************************************)
\* A second phone number, typed into the form.
Phone2 == <<"+15551230002">>

\* The texts typed into the three entries of a recipient: a name holding the
\* separator of the rows or nothing, a phone number after a space.
NameEntries == {<<"A", " ", "-", " ", "B">>, <<>>}
PhoneEntries == {<<" ">> \o Phone2}
MessageEntries == {<<"hi">>}

\* The texts typed into the settings.
SettingEdits ==
    {<<"camera_index_var", OtherText>>}
    \cup {<<"cooldown_var", t>> : t \in {IntText(0), OtherText}}

\* The config.json the form is opened on.
GuiFiles == {FileMissing, FileInvalid, SetupFile(30, Phone, "", "iMessage")}

GuiInit ==
    /\ now = Epoch
    /\ msgIdle
    /\ fnIdle
    /\ config_file \in GuiFiles
    /\ det = [p \in Procs |-> Unborn]
    /\ frame_log = NoFrame
    /\ gui = ConfigGUI_init(config_file)
    /\ gui_call = NoGuiCall

GuiNext ==
    \/ \E write \in WriteOutcomes :
          GuiSaveConfig(write) /\ UNCHANGED <<now, msgVars, fnVars, frame_log>>
    \/ \E write \in WriteOutcomes, popen_ok \in BOOLEAN :
          GuiStartDetector(write, popen_ok) /\ UNCHANGED <<now, msgVars, fnVars, frame_log>>
    \/ \E name \in NameEntries, phone \in PhoneEntries, message \in MessageEntries :
          GuiAddRecipient(name, phone, message)
             /\ UNCHANGED <<now, msgVars, fnVars, frame_log>>
    \/ \E i \in 0 .. MaxRows :
          GuiRemoveRecipient(i) /\ UNCHANGED <<now, msgVars, fnVars, frame_log>>
    \/ \E e \in SettingEdits :
          GuiEdit(e[1], e[2]) /\ UNCHANGED <<now, msgVars, fnVars, frame_log>>

GuiSpec == GuiInit /\ [][GuiNext]_vars

\* C10: start_detector pressed while the listbox of recipients is empty shows
\* one error dialog and does nothing else: config.json is not written, the
\* form's config is not changed, and no detector process is started.
C10_EmptyListStartsNothing ==
    [][(gui_call'.op = "start_detector" /\ Len(gui.listbox) = 0)
         => /\ gui_call'.dialogs = <<"error">>
            /\ ~gui_call'.wrote /\ ~gui_call'.saved /\ ~gui_call'.launched
            /\ config_file' = config_file
            /\ gui' = gui
            /\ det' = det]_vars

\* start_detector was pressed on an empty listbox.
C10_Witness ==
    /\ gui_call.op = "start_detector"
    /\ gui.listbox = <<>>
    /\ gui_call.dialogs = <<"error">>

\* C11: start_detector launches the detector only after the current form
\* values were written to config.json: whenever a press of START DETECTOR
\* launched a detector, save_config wrote the file and config.json holds the
\* form's values.
C11_LaunchOnlyAfterSave ==
    (gui_call.op = "start_detector" /\ gui_call.launched)
       => /\ gui_call.wrote
          /\ config_file = FileOf(gui.config)
          /\ IntOf(gui.cooldown_var).kind = "return"
          /\ config_file.data.notification_cooldown = IntOf(gui.cooldown_var).value

(***************************************************************************)
(* The whole program: the form saves config.json and launches detectors,    *)
(* which load config.json and run their loops.                              *)
(***************************************************************************)
SystemFiles == {FileMissing, SetupFile(30, Phone, "", "iMessage")}

\* The frames the loops are followed on: the template heuristic fires.
SystemFrames ==
    {[template |-> Hit(TemplateConfidence, <<100, 50, 60, 120>>), color |-> Miss,
      shape |-> Miss]}

\* The runs of osascript the loops are followed on: it exits 0.
SystemOutcomes == {NoOutcome}

\* The keys the loops are followed on.
SystemKeys == {"none"}

SystemTickSteps == {120}

Init ==
    /\ now = Epoch
    /\ msgIdle
    /\ fnIdle
    /\ config_file \in SystemFiles
    /\ det = [p \in Procs |-> Unborn]
    /\ frame_log = NoFrame
    /\ gui = ConfigGUI_init(config_file)
    /\ gui_call = NoGuiCall

Next ==
    \/ \E d \in SystemTickSteps :
          Tick(d) /\ gui_call' = NoGuiCall /\ UNCHANGED <<fnVars, config_file, det, gui>>
    \/ GuiSaveConfig("ok") /\ frame_log' = NoFrame /\ UNCHANGED <<now, msgVars, fnVars>>
    \/ GuiStartDetector("ok", TRUE) /\ frame_log' = NoFrame /\ UNCHANGED <<now, msgVars, fnVars>>
    \/ GuiAddRecipient(<<"Mom">>, Phone2, <<"hi">>)
          /\ frame_log' = NoFrame /\ UNCHANGED <<now, msgVars, fnVars>>
    \/ GuiRemoveRecipient(1) /\ frame_log' = NoFrame /\ UNCHANGED <<now, msgVars, fnVars>>
    \/ GuiEdit("cooldown_var", IntText(0)) /\ frame_log' = NoFrame /\ UNCHANGED <<now, msgVars, fnVars>>
    \/ \E p \in Procs :
          DetectorStart(p, TRUE)
             /\ gui_call' = NoGuiCall /\ UNCHANGED <<msgVars, fnVars, gui>>
    \/ \E p \in Procs, h \in SystemFrames, key \in SystemKeys :
          \E o \in FrameOutcomes(p, TRUE, h, 0) \cap SystemOutcomes :
             Frame(p, TRUE, h, 0, o, key)
                /\ gui_call' = NoGuiCall /\ UNCHANGED <<msgVars, fnVars, gui>>

Spec == Init /\ [][Next]_vars

\* The phone numbers of the recipients a detector's config lists.
RecipientPhones(config) ==
    {Get(config, "recipients", <<>>)[i].phone : i \in DOMAIN Get(config, "recipients", <<>>)}

\* C4: the recipients saved by the form are who the detector texts.  On a
\* config.json the form saved with at least one recipient, a detector's first
\* detection leads to a message, and every message it sends goes to the phone
\* of one of the saved recipients.
C4_DetectorTextsSavedRecipients ==
    (DetectedFrame /\ RecipientPhones(FrameProc.config) \ {<<>>} # {})
       => /\ frame_log.sent_before < 0 => frame_log.sm # NoSend
          /\ frame_log.sm # NoSend => <<frame_log.recipient>> \in RecipientPhones(FrameProc.config)

\* C17: the notification cooldown holds for the system as a whole.  Whenever
\* a detector process sends a message, no message was sent within the last
\* notification_cooldown seconds, by this process or by any other detector
\* launched from the form.
C17_SystemWideCooldown ==
    (frame_log.kind = "frame" /\ frame_log.ret) =>
       LET cooldown == FrameProc.config["notification_cooldown"]
       IN  /\ frame_log.sent_before >= 0 => FrameTime - frame_log.sent_before >= cooldown
           /\ \A q \in Procs \ {frame_log.proc} :
                 det[q].sent_at >= 0 => FrameTime - det[q].sent_at >= cooldown

(***************************************************************************)
(* Recipients entered in the form, saved to config.json and loaded again.   *)
(***************************************************************************)
\* The recipients entered in one session are followed up to this many.
MaxEntries == 2

\* The recipients typed into the three entries: plain names, a name between
\* spaces, a name holding the separator of the rows, no name; a message
\* holding the separator.
EntryChoices ==
    {[name |-> n, phone |-> ph, message |-> m] :
        n \in {<<"Mom">>, <<" ", "Al", " ">>, <<"A", " ", "-", " ", "B">>, <<>>},
        ph \in {Phone2, <<" ">> \o Phone2},
        m \in {<<"hi">>, <<"x", " ", "-", " ", "y">>}}

EntrySequences == UNION {[1 .. n -> EntryChoices] : n \in 1 .. MaxEntries}

\* add_recipient pressed once for each of the entries.
RECURSIVE AddAll(_, _)
AddAll(g, entries) ==
    IF entries = <<>> THEN g
    ELSE AddAll(add_recipient(g, Head(entries).name, Head(entries).phone,
                              Head(entries).message).g,
                Tail(entries))

\* The entries add_recipient accepts, as it reads them (stripped).
RECURSIVE Accepted(_)
Accepted(entries) ==
    IF entries = <<>> THEN <<>>
    ELSE LET e == [name |-> Strip(Head(entries).name),
                   phone |-> Strip(Head(entries).phone),
                   message |-> Strip(Head(entries).message)]
         IN  (IF e.name = <<>> \/ e.phone = <<>> \/ e.message = <<>>
              THEN <<>> ELSE <<e>>) \o Accepted(Tail(entries))

\* A form opened where there is no config.json, the entries added, the
\* configuration saved, and a form opened again on the file written.
RoundTrip(entries) ==
    LET g0 == ConfigGUI_init(FileMissing)
        g1 == AddAll(g0, entries)
        s == save_config(g1, FileMissing, "ok")
        g2 == ConfigGUI_init(s.file)
    IN  [before |-> g0.config.recipients,
         rows |-> g1.listbox,
         saved |-> s.file.data.recipients,
         reloaded |-> g2.listbox]

RoundTripInit ==
    /\ now = Epoch
    /\ msgIdle
    /\ detIdle
    /\ \E entries \in EntrySequences : fn_in = <<entries>>
    /\ fn_out = <<>>

ApplyRoundTrip ==
    /\ fn_out = <<>>
    /\ fn_out' = <<RoundTrip(fn_in[1])>>
    /\ UNCHANGED <<now, msgVars, detVars, guiVars, fn_in>>

RoundTripNext == ApplyRoundTrip

RoundTripSpec == RoundTripInit /\ [][RoundTripNext]_vars

\* C12: the recipients round-trip through the form.  After the accepted
\* entries were added and the configuration saved, config.json lists the
\* recipients it had before followed by one entry for each accepted recipient
\* with the name, phone and message entered; there are as many saved
\* recipients as rows; and a form opened on the file shows the same rows.
C12_RecipientsRoundTrip ==
    fn_out # <<>> =>
       /\ fn_out[1].saved = fn_out[1].before \o Accepted(fn_in[1])
       /\ Len(fn_out[1].saved) = Len(fn_out[1].rows)
       /\ fn_out[1].reloaded = fn_out[1].rows

(***************************************************************************)
(* The two load_config functions applied on their own to config.json.       *)
(***************************************************************************)
\* A config.json holding every key of the two defaults with a value that is
\* not the default, and a key neither default has.
FullData ==
    [camera_index |-> 1,
     detection_confidence |-> 70,
     notification_cooldown |-> 30,
     recipient_phone_number |-> Phone,
     recipient_email |-> Email,
     message_service |-> "SMS",
     detection_area |-> [DefaultArea EXCEPT !.enabled = TRUE],
     recipients |-> <<[name |-> <<"Al">>, phone |-> Phone2, message |-> <<"hi">>]>>,
     theme |-> "dark"]

\* The files with any subset of these keys, and the files that are missing,
\* not JSON, or not a JSON object.
LoadFiles ==
    {FileOf([k \in K |-> FullData[k]]) : K \in SUBSET DOMAIN FullData}
    \cup {FileMissing, FileInvalid, FileNonObject}

LoadInit ==
    /\ now = Epoch
    /\ msgIdle
    /\ detIdle
    /\ \E file \in LoadFiles : fn_in = <<file>>
    /\ fn_out = <<>>

ApplyLoadConfig ==
    /\ fn_out = <<>>
    /\ fn_out' = <<[detector |-> load_config(fn_in[1]).config,
                    gui |-> gui_load_config(fn_in[1]).config]>>
    /\ UNCHANGED <<now, msgVars, detVars, guiVars, fn_in>>

LoadNext == ApplyLoadConfig

LoadSpec == LoadInit /\ [][LoadNext]_vars

\* config is the file's data merged with default_config at the top level.
IsMerge(config, data, default_config) ==
    /\ DOMAIN default_config \subseteq DOMAIN config
    /\ \A k \in DOMAIN data : k \in DOMAIN config /\ config[k] = data[k]
    /\ \A k \in DOMAIN default_config \ DOMAIN data : config[k] = default_config[k]

\* C13: when config.json exists and holds valid JSON, load_config of the
\* detector and of the form return a config with every top-level key of their
\* default config, where each key of the file has the file's value and each
\* key absent from the file has the default value.
C13_LoadMergesDefaults ==
    (fn_out # <<>> /\ fn_in[1].state \in {"ok", "nonobject"}) =>
       /\ IsMerge(fn_out[1].detector, fn_in[1].data, DetectorDefaultConfig)
       /\ IsMerge(fn_out[1].gui, fn_in[1].data, GuiDefaultConfig)

\* A file with a cooldown of its own and no camera index was loaded.
C13_Witness ==
    /\ fn_out # <<>>
    /\ fn_in[1].state = "ok"
    /\ "notification_cooldown" \in DOMAIN fn_in[1].data
    /\ "camera_index" \notin DOMAIN fn_in[1].data
    /\ fn_out[1].detector.notification_cooldown = 30
    /\ fn_out[1].gui.camera_index = 0

(***************************************************************************)
(* MacOSMessenger._format_recipient on recipients as sequences of           *)
(* characters.                                                              *)
(***************************************************************************)
DigitChars == <<"0", "1", "2", "3", "4", "5", "6", "7", "8", "9">>

\* c.isdigit()
IsDigit(c) == \E i \in DOMAIN DigitChars : DigitChars[i] = c

\* s.replace(c, '') for a character c
RECURSIVE Remove(_, _)
Remove(s, c) ==
    IF s = <<>> THEN <<>>
    ELSE (IF Head(s) = c THEN <<>> ELSE <<Head(s)>>) \o Remove(Tail(s), c)

\* s.isdigit(): not empty and digits only.
IsDigitString(s) == s # <<>> /\ \A i \in DOMAIN s : IsDigit(s[i])

\* ''.join(c for c in s if c.isdigit() or c == '+')
RECURSIVE DigitsAndPlus(_)
DigitsAndPlus(s) ==
    IF s = <<>> THEN <<>>
    ELSE (IF IsDigit(Head(s)) \/ Head(s) = "+" THEN <<Head(s)>> ELSE <<>>)
            \o DigitsAndPlus(Tail(s))

\* A variant of _format_recipient that prefixes '+1' to 10 digits only.
_format_recipient_ten_only(recipient) ==
    IF IsDigitString(Remove(Remove(Remove(Remove(Remove(recipient, "+"), "-"), " "), "("), ")"))
    THEN LET phone == DigitsAndPlus(recipient)
         IN  IF Len(phone) = 10 THEN <<"+", "1">> \o phone ELSE phone
    ELSE recipient

\* MacOSMessenger._format_recipient
_format_recipient(recipient) ==
    IF IsDigitString(Remove(Remove(Remove(Remove(Remove(recipient, "+"), "-"), " "), "("), ")"))
    THEN LET phone == DigitsAndPlus(recipient)
         IN  IF Len(phone) = 10 THEN <<"+", "1">> \o phone
             ELSE IF Len(phone) = 11 /\ Head(phone) = "1" THEN <<"+">> \o phone
             ELSE phone
    ELSE recipient

\* The recipients are followed up to this many digits.
MaxDigits == 12

\* n digits: first, then the digits of the positions.
DigitRun(first, n) == [i \in 1 .. n |-> IF i = 1 THEN first ELSE DigitChars[(i % 10) + 1]]

\* s with the characters ins put in before position p.
InsertAt(s, p, ins) == SubSeq(s, 1, p - 1) \o ins \o SubSeq(s, p, Len(s))

\* The characters put between the digits: the separators, '+', and
\* characters no phone number has.
Insertions ==
    {<<>>, <<"-">>, <<" ">>, <<"(">>, <<")">>, <<"(", ")", " ", "-">>, <<"+">>,
     <<".">>, <<"x">>, <<"@">>}

\* The recipients _format_recipient is applied to: runs of 8 to MaxDigits
\* digits with insertions at up to two places, and an email address.
FormatInputs ==
    {InsertAt(InsertAt(DigitRun(first, n), p, a), q, b) :
        first \in {"1", "5"}, n \in 8 .. MaxDigits,
        p \in {1, 4, 9}, q \in {1, 7}, a \in Insertions, b \in {<<>>, <<"-">>, <<" ">>}}
    \cup {<<"m", "e", "@", "x", ".", "i", "o">>, <<>>, <<"-">>}

FormatInit ==
    /\ now = Epoch
    /\ msgIdle
    /\ detIdle
    /\ \E recipient \in FormatInputs : fn_in = <<recipient>>
    /\ fn_out = <<>>

ApplyFormatRecipient ==
    /\ fn_out = <<>>
    /\ fn_out' = <<_format_recipient(fn_in[1])>>
    /\ UNCHANGED <<now, msgVars, detVars, guiVars, fn_in>>

FormatNext == ApplyFormatRecipient

FormatSpec == FormatInit /\ [][FormatNext]_vars

\* The digits of s.
DigitsOf(s) == Remove(DigitsAndPlus(s), "+")

\* s is written as digits and the separators '-', ' ', '(' and ')' only.
DigitsAndSeparators(s) ==
    \A i \in DOMAIN s : IsDigit(s[i]) \/ s[i] \in {"-", " ", "(", ")"}

\* s holds a character no phone number is written with.
NotPhoneLike(s) ==
    \E i \in DOMAIN s : ~IsDigit(s[i]) /\ s[i] \notin {"+", "-", " ", "(", ")"}

\* C14: _format_recipient returns '+1' followed by the 10 subscriber digits
\* for a recipient written as 10 digits, or as 11 digits beginning with 1,
\* with any mix of the separators '-', ' ', '(' and ')'; it returns a
\* recipient that is not phone-like unchanged.
C14_FormatRecipient ==
    fn_out # <<>> =>
       LET r == fn_in[1]
           d == DigitsOf(r)
       IN  /\ (DigitsAndSeparators(r) /\ Len(d) = 10) => fn_out[1] = <<"+", "1">> \o d
           /\ (DigitsAndSeparators(r) /\ Len(d) = 11 /\ d[1] = "1")
                 => fn_out[1] = <<"+", "1">> \o Tail(d)
           /\ NotPhoneLike(r) => fn_out[1] = r

\* An 11-digit number beginning with 1 and written with separators was
\* formatted.
C14_Witness ==
    /\ fn_out # <<>>
    /\ DigitsAndSeparators(fn_in[1])
    /\ Len(DigitsOf(fn_in[1])) = 11
    /\ Len(fn_in[1]) > 11
    /\ fn_out[1] = <<"+", "1">> \o Tail(DigitsOf(fn_in[1]))

(***************************************************************************)
(* iPhoneDetector.is_in_detection_area applied on its own.                  *)
(***************************************************************************)
\* iPhoneDetector.is_in_detection_area
is_in_detection_area(config, x, y, w, h) ==
    IF ~config["detection_area"].enabled
    THEN TRUE
    ELSE LET area == config["detection_area"]
         IN  /\ area.x <= x /\ x <= area.x + area.width
             /\ area.y <= y /\ y <= area.y + area.height

\* Boxes are followed up to this coordinate.
MaxCoord == 4

\* The detection areas: the default one (disabled), and a small area, enabled
\* or not.
AreaChoices ==
    {DefaultArea}
    \cup {[enabled |-> e, x |-> 1, y |-> 1, width |-> 2, height |-> 2] : e \in BOOLEAN}

AreaInit ==
    /\ now = Epoch
    /\ msgIdle
    /\ detIdle
    /\ \E area \in AreaChoices, x \in 0 .. MaxCoord, y \in 0 .. MaxCoord,
          w \in 1 .. 2, h \in 1 .. 2 :
          fn_in = <<[config |-> [DetectorDefaultConfig EXCEPT !.detection_area = area],
                     x |-> x, y |-> y, w |-> w, h |-> h]>>
    /\ fn_out = <<>>

ApplyIsInDetectionArea ==
    /\ fn_out = <<>>
    /\ fn_out' = <<is_in_detection_area(fn_in[1].config, fn_in[1].x, fn_in[1].y,
                                        fn_in[1].w, fn_in[1].h)>>
    /\ UNCHANGED <<now, msgVars, detVars, guiVars, fn_in>>

AreaNext == ApplyIsInDetectionArea

AreaSpec == AreaInit /\ [][AreaNext]_vars

\* C16: is_in_detection_area returns True for every box when detection_area
\* is disabled; when it is enabled it returns True exactly when the box from
\* (x, y) to (x + w, y + h) lies within the rectangle from (area.x, area.y) to
\* (area.x + width, area.y + height).
C16_BoxWithinArea ==
    fn_out # <<>> =>
       LET i == fn_in[1]
           area == i.config["detection_area"]
       IN  fn_out[1] = (~area.enabled
                          \/ (/\ area.x <= i.x /\ i.x + i.w <= area.x + area.width
                              /\ area.y <= i.y /\ i.y + i.h <= area.y + area.height))

====
